---- MODULE Spec2Model ----
(***************************************************************************)
(* A model of aiohttp_admin's SQLAlchemy resources (backends/sa.py), the   *)
(* RPC client interface (backends/grpc.py) and the Schema registry         *)
(* (contrib/admin.py).                                                     *)
(*                                                                         *)
(* One table with an integer serial primary key "id" and one nullable data *)
(* column "name" is served by one resource object whose class is chosen at *)
(* start-up.  Every request is one handler coroutine; a step of the model  *)
(* is the code between two awaits that reach the database, the pool or the *)
(* RPC client.  The database applies each statement atomically.  The PG    *)
(* and asyncpg drivers run in autocommit, so a statement is visible to     *)
(* other connections at once; the MySQL driver opens a transaction         *)
(* implicitly, so what MySQLResource's create, update and delete write is  *)
(* visible to other connections only after their "commit;", is dropped     *)
(* when the connection is released without it, and until then keeps the    *)
(* row locked against the writes of other connections.                     *)
(***************************************************************************)
EXTENDS Integers, Sequences, FiniteSets, TLC

\* ------------------------------------------------------------------ bounds
NumHandlers == 2    \* concurrent requests
MaxId       == 2    \* largest primary key the sequence hands out
MaxVal      == 2    \* values of the data column are 1..MaxVal (0 is NULL)
MaxPage     == 2    \* page numbers asked for
MaxPerPage  == 2    \* page sizes asked for
MaxEndpoints == 3   \* register calls on one Schema
MaxName     == 3    \* endpoint names are 1..MaxName, ordered as the strings are

H        == 1..NumHandlers
Ids      == 1..MaxId
Null     == 0
Vals     == 1..MaxVal
NoRow    == -1                       \* no row under that key
NoField  == -1                       \* the payload does not carry the field
Payloads == {NoField} \cup Vals
NoFilter == -1
ASC      == "ASC"
DESC     == "DESC"
Variants == {"PGResource", "AsyncpgResource", "MySQLResource", "AsyncpgGrpcResource"}
Ops      == {"list", "detail", "create", "update", "delete"}

None     == <<>>                     \* Python's None for a fetched record
NoQuery  == [page |-> 0, perPage |-> 0, sortDir |-> ASC, filter |-> NoFilter]
Queries  == [page : 1..MaxPage, perPage : 1..MaxPerPage,
             sortDir : {ASC, DESC}, filter : {NoFilter, 1}]
NoResult == [raised |-> FALSE, kind |-> "none", body |-> <<>>]

VARIABLES
  variant,    \* the resource class serving the table
  table,      \* the table: primary key -> value of "name", or NoRow
  nextId,     \* the next value of the primary-key sequence
  pending,    \* per handler: the uncommitted write of its MySQL transaction
  op,         \* per handler: the operation it runs ("idle" before a request)
  pc,         \* per handler: the statement it is about to run
  eid,        \* per handler: request.match_info["entity_id"]
  data,       \* per handler: the validated payload
  query,      \* per handler: the query parameters of a list request
  rec,        \* per handler: the local rec / row / count / new_entity_id
  result,     \* per handler: the response or the exception it ended with
  conn,       \* per handler: it holds a pool connection
  nAcquire,   \* per handler: connections it acquired so far
  nStmt,      \* per handler: database statements it issued so far
  rpcDone,    \* per handler: its RPC call returned normally
  assigned,   \* per handler: the key the database gave to the row it created
  passed,     \* per handler: the checks that let it through (require, validate)
  title,      \* Schema.title
  endpoints,  \* Schema.endpoints
  registered, \* history: the endpoints passed to register, in call order
  lastJson,   \* the document of the last to_json call
  jsonAt      \* history: how many endpoints were registered at that call

reqVars    == <<op, pc, eid, data, query, rec, result, conn, nAcquire, nStmt,
                rpcDone, assigned, passed>>
dbVars     == <<variant, table, nextId, pending>>
schemaVars == <<title, endpoints, registered, lastJson, jsonAt>>
vars       == <<variant, table, nextId, pending, op, pc, eid, data, query, rec, result,
                conn, nAcquire, nStmt, rpcDone, assigned, passed,
                title, endpoints, registered, lastJson, jsonAt>>

\* ------------------------------------------------- statements and helpers
Min(a, b) == IF a < b THEN a ELSE b
Max(a, b) == IF a > b THEN a ELSE b

\* table.select().where(self._pk == entity_id), then first() / fetchrow()
SelectByPk(t, e) == IF t[e] = NoRow THEN None ELSE <<e, t[e]>>

\* the row values(data) describes: a column the payload leaves out is NULL
NewRow(d) == IF d = NoField THEN Null ELSE d

\* a variant of InsertValues that drops the payload
InsertNulls(t, i, d) == [t EXCEPT ![i] = Null]

\* table.insert().values(data) under the key i the sequence gives
InsertValues(t, i, d) == [t EXCEPT ![i] = NewRow(d)]

\* a variant of UpdateValues that keeps a value already set (first write wins)
UpdateIfNull(t, e, d) ==
  IF t[e] = NoRow THEN t
  ELSE [t EXCEPT ![e] = IF d = NoField \/ @ # Null THEN @ ELSE d]

\* table.update().values(data).where(self._pk == entity_id): only the
\* columns of the payload are written; no row, no effect
UpdateValues(t, e, d) ==
  IF t[e] = NoRow THEN t ELSE [t EXCEPT ![e] = IF d = NoField THEN @ ELSE d]

\* a variant of DeleteByPk whose where clause matches nothing
DeleteNothing(t, e) == t

\* table.delete().where(self._pk == entity_id)
DeleteByPk(t, e) == [t EXCEPT ![e] = NoRow]

\* what a statement leaves in the connection's open transaction: the row k
\* as the statement made it (t2), if the statement touched a row at all
Written(t2, k, matched) == IF matched THEN <<k, t2[k]>> ELSE None

\* conn.execute("commit;"): the transaction's write w reaches the table
CommitWrite(t, w) == IF w = None THEN t ELSE [t EXCEPT ![w[1]] = w[2]]

\* create_filter(table, filters) when filters are given, else table.select():
\* the keys of the rows selected
Selection(t, f) == {i \in Ids : t[i] # NoRow /\ (f = NoFilter \/ t[i] = f)}

\* sa.select([sa.func.count()]).select_from(query.alias("foo"))
CountOf(t, f) == Cardinality(Selection(t, f))

\* calc_pagination(q, primary_key): page/perPage resolved to offset/limit,
\* sorted on the primary key
calc_pagination(q) ==
  [offset |-> (q.page - 1) * q.perPage, limit |-> q.perPage, sort_dir |-> q.sortDir]

RECURSIVE OrderBy(_, _)
\* order_by(sort_dir(paging.sort_field)) over a set of keys
OrderBy(S, dir) ==
  IF S = {} THEN <<>>
  ELSE LET m == CHOOSE x \in S : \A y \in S : IF dir = ASC THEN x <= y ELSE x >= y
       IN  <<m>> \o OrderBy(S \ {m}, dir)

\* a variant of OffsetLimit that ignores the offset
LimitOnly(s, o, l) == SubSeq(s, 1, Min(Len(s), l))

\* query.offset(o).limit(l) over the ordered rows
OffsetLimit(s, o, l) == SubSeq(s, o + 1, Min(Len(s), o + l))

\* the entities of one page: list(map(dict, recs))
PageOf(t, f, paging) ==
  LET keys == OffsetLimit(OrderBy(Selection(t, f), paging.sort_dir),
                          paging.offset, paging.limit)
  IN  [k \in 1..Len(keys) |-> <<keys[k], t[keys[k]]>>]

\* an exception leaving the handler
Raise(k) == [raised |-> TRUE, kind |-> k, body |-> <<>>]
\* json_response(body): a response the handler returns
Respond(k, b) == [raised |-> FALSE, kind |-> k, body |-> b]

\* entity = dict(rec); json_response(entity): dict(None) raises TypeError
EntityResponse(r) == IF r = None THEN Raise("TypeError") ELSE Respond("Ok", r)

\* json_response({"status": "deleted"})
Deleted == Respond("Deleted", <<>>)

\* ------------------------------------------------- the RPC client (grpc.py)
\* GrpcClient.create(**data): the service stores the row under the next key
ClientCreate(t, i, d) == InsertValues(t, i, d)
\* GrpcClient.update(entity_id, **data): the service updates the row
ClientUpdate(t, e, d) == UpdateValues(t, e, d)
\* GrpcClient.delete(entity_id): the service deletes the row
ClientDelete(t, e) == DeleteByPk(t, e)

\* ------------------------------------------------- control-flow helpers
\* a variant of ReleaseOnExit that releases on a return only (acquire without
\* a with block)
LeakOnRaise(h, res) == IF res.raised THEN conn ELSE [conn EXCEPT ![h] = FALSE]

\* __aexit__ of "async with self.pool.acquire() as conn": on a return and on
\* a raise alike the connection goes back to the pool
ReleaseOnExit(h, res) == [conn EXCEPT ![h] = FALSE]

\* the handler goes on to statement p with local record r
Run(h, p, r) ==
  /\ pc' = [pc EXCEPT ![h] = p]
  /\ rec' = [rec EXCEPT ![h] = r]
  /\ UNCHANGED <<result, conn>>

\* the handler returns res (a response) or raises it (an exception)
End(h, res) ==
  /\ pc' = [pc EXCEPT ![h] = "done"]
  /\ rec' = [rec EXCEPT ![h] = None]
  /\ result' = [result EXCEPT ![h] = res]
  /\ conn' = ReleaseOnExit(h, res)

\* a variant of OnGrpcError that lets GrpcError propagate
OnGrpcErrorRaises(h) == End(h, Raise("GrpcError"))

\* except GrpcError as e: return json_response({"status": {"error": str(e)}})
OnGrpcError(h) == End(h, Respond("StatusError", <<>>))

\* one statement sent over the handler's connection
Stmt(h) == nStmt' = [nStmt EXCEPT ![h] = @ + 1]

\* the resource is an AsyncpgGrpcResource
IsGrpc == variant = "AsyncpgGrpcResource"
\* PGResource and MySQLResource send "commit;" after a mutation
Commits == variant \in {"PGResource", "MySQLResource"}
\* the driver keeps a connection's statements in a transaction until "commit;"
InTransaction == variant = "MySQLResource"

\* another connection holds an uncommitted write on row k: a write of h on
\* that row waits for its commit or rollback
LockedByOther(h, k) ==
  \E g \in H \ {h} : pending[g] # None /\ pending[g][1] = k

\* the connection's transaction is over: committed, or rolled back on release
NoPending(h) == pending' = [pending EXCEPT ![h] = None]

\* ------------------------------------------------- Schema (contrib/admin.py)
DefaultTitle == "Admin"
Titles       == {DefaultTitle, "Shop"}
NoCall       == -1
NoJson       == [title |-> "", endpoints |-> <<>>]

\* the table every endpoint of the model presents: column name -> column type
SchemaColumns == <<"id", "name", "score", "created">>
SchemaTypes   == [id |-> "Integer", name |-> "Text", score |-> "Float",
                  created |-> "DateTime"]
SchemaPk      == {"id"}

\* FIELD_TYPES.get(type(column.type), rc.TEXT_FIELD.value)
FIELD_TYPES(ty) ==
  CASE ty = "Integer" -> "TEXT_FIELD"
    [] ty = "Text"    -> "TEXT_FIELD"
    [] ty = "Float"   -> "NUMBER_FIELD"
    [] ty = "Date"    -> "DATE_FIELD"
    [] ty = "Boolean" -> "BOOLEAN_FIELD"
    [] ty = "JSON"    -> "JSON_FIELD"
    [] OTHER          -> "TEXT_FIELD"

\* an endpoint's `fields`: "*" (star), or a list of column names (names)
FieldChoices == {[star |-> FALSE, names |-> {}],
                 [star |-> TRUE,  names |-> {}],
                 [star |-> FALSE, names |-> {"name", "score"}],
                 [star |-> FALSE, names |-> {"created", "nosuch"}]}
Endpoints == [name : 1..MaxName, fields : FieldChoices]

\* PGResource.get_type_of_fields(fields, table)
get_type_of_fields(fields, columns, types, pk) ==
  LET wanted == IF ~fields.star /\ fields.names = {} THEN pk ELSE fields.names
      actual == IF fields.star
                  THEN {columns[i] : i \in DOMAIN columns}
                  ELSE {columns[i] : i \in {j \in DOMAIN columns : columns[j] \in wanted}}
  IN  [c \in actual |-> FIELD_TYPES(types[c])]

\* endpoint.to_dict() with data['fields'] set
Descriptor(e) ==
  [name |-> e.name,
   fields |-> get_type_of_fields(e.fields, SchemaColumns, SchemaTypes, SchemaPk)]

RECURSIVE SortedByName(_)
\* sorted(endpoints, key=lambda x: x['name']): stable, ascending
SortedByName(s) ==
  IF s = <<>> THEN <<>>
  ELSE LET t == SortedByName(SubSeq(s, 1, Len(s) - 1))
           x == s[Len(s)]
           k == Cardinality({i \in DOMAIN t : t[i].name <= x.name})
       IN  SubSeq(t, 1, k) \o <<x>> \o SubSeq(t, k + 1, Len(t))

\* Schema.to_json(): the document json.dumps serialises
to_json(ttl, eps) ==
  [title |-> ttl,
   endpoints |-> SortedByName([i \in DOMAIN eps |-> Descriptor(eps[i])])]

\* Schema.resources: (resource_type, info) per endpoint
resources(eps) == [i \in DOMAIN eps |-> <<"resource_type", eps[i].name>>]

\* self.endpoints.append(Endpoint(*args, **kwargs))
Append_endpoint(eps, e) == Append(eps, e)

\* a variant of to_json that sorts self.endpoints in place
EndpointsSortedInPlace(eps) == SortedByName(eps)

\* what to_json leaves in self.endpoints (it builds a new list)
EndpointsAfterToJson(eps) == eps

\* ------------------------------------------------------------- Init
Init ==
  /\ variant \in Variants
  /\ nextId = 2
  /\ pending = [h \in H |-> None]
  /\ table \in {t \in [Ids -> {NoRow, 1}] : \A i \in Ids : i >= 2 => t[i] = NoRow}
  /\ op = [h \in H |-> "idle"]
  /\ pc = [h \in H |-> "idle"]
  /\ eid = [h \in H |-> 0]
  /\ data = [h \in H |-> NoField]
  /\ query = [h \in H |-> NoQuery]
  /\ rec = [h \in H |-> None]
  /\ result = [h \in H |-> NoResult]
  /\ conn = [h \in H |-> FALSE]
  /\ nAcquire = [h \in H |-> 0]
  /\ nStmt = [h \in H |-> 0]
  /\ rpcDone = [h \in H |-> FALSE]
  /\ assigned = [h \in H |-> 0]
  /\ passed = [h \in H |-> {}]
  /\ title = DefaultTitle
  /\ endpoints = <<>>
  /\ registered = <<>>
  /\ lastJson = NoJson
  /\ jsonAt = NoCall

\* ------------------------------------------------------------- requests
\* the create requests under way that have not been given a key yet (the
\* sequence is modelled up to MaxId: a create starts only if a key is left)
InsertsAhead == {g \in H : op[g] = "create" /\ pc[g] # "done" /\ assigned[g] = 0}

\* a request arrives: the server calls one handler with it
Start(h) ==
  /\ pc[h] = "idle"
  /\ IF h = 1 THEN TRUE ELSE pc[h - 1] # "idle"   \* requests are numbered as they arrive
  /\ \E o \in Ops, e \in Ids, d \in Payloads, q \in Queries :
       /\ o = "create" => nextId + Cardinality(InsertsAhead) <= MaxId
       /\ op' = [op EXCEPT ![h] = o]
       /\ eid' = [eid EXCEPT ![h] =
                    IF o \in {"detail", "update", "delete"} THEN e ELSE 0]
       /\ data' = [data EXCEPT ![h] =
                    IF o \in {"create", "update"} THEN d ELSE NoField]
       /\ query' = [query EXCEPT ![h] = IF o = "list" THEN q ELSE NoQuery]
  /\ pc' = [pc EXCEPT ![h] = "require"]
  /\ UNCHANGED <<dbVars, rec, result, conn, nAcquire, nStmt, rpcDone, assigned,
                 passed, schemaVars>>

\* a variant of AfterRequire that goes to the database without validate_payload
AfterRequireSkipsValidate(h) ==
  IF IsGrpc /\ op[h] \in {"create", "update", "delete"} THEN "rpc" ELSE "acquire"

\* what follows require(): payload or query validation, or, with nothing to
\* validate, the RPC delete or the connection
AfterRequire(h) ==
  IF op[h] \in {"list", "create", "update"} THEN "validate"
  ELSE IF op[h] = "delete" /\ IsGrpc THEN "rpc"
  ELSE "acquire"

\* await require(request, Permissions.<op>): raises when permission is denied
Require(h) ==
  /\ pc[h] = "require"
  /\ \/ End(h, Raise("AuthError")) /\ UNCHANGED passed
     \/ /\ Run(h, AfterRequire(h), None)
        /\ passed' = [passed EXCEPT ![h] = @ \cup {"require"}]
  /\ UNCHANGED <<dbVars, op, eid, data, query, nAcquire, nStmt, rpcDone,
                 assigned, schemaVars>>

\* what follows validation: the RPC call in AsyncpgGrpcResource's create and
\* update, the connection everywhere else
AfterValidate(h) == IF IsGrpc /\ op[h] # "list" THEN "rpc" ELSE "acquire"

\* validate_query + calc_pagination (list), request.read + validate_payload
\* (create, update): raises on a malformed query or payload
Validate(h) ==
  /\ pc[h] = "validate"
  /\ \/ End(h, Raise("ValidationError")) /\ UNCHANGED passed
     \/ /\ Run(h, AfterValidate(h), None)
        /\ passed' = [passed EXCEPT ![h] = @ \cup {"validate"}]
  /\ UNCHANGED <<dbVars, op, eid, data, query, nAcquire, nStmt, rpcDone,
                 assigned, schemaVars>>

\* the first statement inside the with block
AfterAcquire(h) ==
  CASE op[h] = "list"   -> "count"
    [] op[h] = "detail" -> "select"
    [] op[h] = "create" -> IF IsGrpc THEN "select" ELSE "insert"
    [] op[h] = "update" -> "select"
    [] op[h] = "delete" -> "delete"

\* async with self.pool.acquire() as conn
Acquire(h) ==
  /\ pc[h] = "acquire"
  /\ pc' = [pc EXCEPT ![h] = AfterAcquire(h)]
  /\ conn' = [conn EXCEPT ![h] = TRUE]
  /\ nAcquire' = [nAcquire EXCEPT ![h] = @ + 1]
  /\ UNCHANGED <<dbVars, op, eid, data, query, rec, result, nStmt, rpcDone,
                 assigned, passed, schemaVars>>

\* ------------------------------------------------------------- list
\* count = await conn.scalar(select count(*) from (query))
ListCount(h) ==
  /\ op[h] = "list" /\ pc[h] = "count"
  /\ Run(h, "page", <<CountOf(table, query[h].filter)>>)
  /\ Stmt(h)
  /\ UNCHANGED <<dbVars, op, eid, data, query, nAcquire, rpcDone, assigned,
                 passed, schemaVars>>

\* the page query, then json_response(entities, X-Total-Count: count)
ListPage(h) ==
  /\ op[h] = "list" /\ pc[h] = "page"
  /\ End(h, Respond("Ok", <<rec[h][1],
                          PageOf(table, query[h].filter, calc_pagination(query[h]))>>))
  /\ Stmt(h)
  /\ UNCHANGED <<dbVars, op, eid, data, query, nAcquire, rpcDone, assigned,
                 passed, schemaVars>>

\* ------------------------------------------------------------- detail
DetailSelect(h) ==
  /\ op[h] = "detail" /\ pc[h] = "select"
  /\ LET r == SelectByPk(table, eid[h])
     IN  End(h, IF r = None THEN Raise("ObjectNotFound") ELSE EntityResponse(r))
  /\ Stmt(h)
  /\ UNCHANGED <<dbVars, op, eid, data, query, nAcquire, rpcDone, assigned,
                 passed, schemaVars>>

\* ------------------------------------------------------------- create
\* AsyncpgGrpcResource.create: entity_id = await self.client.create(**data)
CreateRpc(h) ==
  /\ op[h] = "create" /\ pc[h] = "rpc"
  /\ \/ /\ OnGrpcError(h)
        /\ UNCHANGED <<dbVars, rpcDone, assigned>>
     \/ /\ table' = ClientCreate(table, nextId, data[h])
        /\ nextId' = nextId + 1
        /\ assigned' = [assigned EXCEPT ![h] = nextId]
        /\ rpcDone' = [rpcDone EXCEPT ![h] = TRUE]
        /\ Run(h, "acquire", <<nextId>>)
        /\ UNCHANGED <<variant, pending>>
  /\ UNCHANGED <<op, eid, data, query, nAcquire, nStmt, passed, schemaVars>>

\* table.insert().values(data): RETURNING the row (PG, asyncpg), or giving
\* lastrowid inside the open transaction (MySQL)
CreateInsert(h) ==
  /\ op[h] = "create" /\ pc[h] = "insert"
  /\ nextId' = nextId + 1
  /\ assigned' = [assigned EXCEPT ![h] = nextId]
  /\ IF InTransaction
       THEN /\ table' = table
            /\ pending' = [pending EXCEPT ![h] =
                             Written(InsertValues(table, nextId, data[h]), nextId, TRUE)]
            /\ Run(h, "select", <<nextId>>)
       ELSE /\ table' = InsertValues(table, nextId, data[h])
            /\ UNCHANGED pending
            /\ IF Commits
                 THEN Run(h, "commit", SelectByPk(table', nextId))
                 ELSE End(h, EntityResponse(SelectByPk(table', nextId)))
  /\ Stmt(h)
  /\ UNCHANGED <<variant, op, eid, data, query, nAcquire, rpcDone, passed, schemaVars>>

\* the select by the new key: MySQL reads the table with its own uncommitted
\* row in it, the RPC variant reads whatever row is stored under the key the
\* client returned
CreateSelect(h) ==
  /\ op[h] = "create" /\ pc[h] = "select"
  /\ IF IsGrpc
       THEN End(h, EntityResponse(SelectByPk(table, rec[h][1])))
       ELSE Run(h, "commit", SelectByPk(CommitWrite(table, pending[h]), rec[h][1]))
  /\ Stmt(h)
  /\ UNCHANGED <<dbVars, op, eid, data, query, nAcquire, rpcDone, assigned,
                 passed, schemaVars>>

\* await conn.execute("commit;"), then json_response(dict(row))
CreateCommit(h) ==
  /\ op[h] = "create" /\ pc[h] = "commit"
  /\ table' = CommitWrite(table, pending[h])
  /\ NoPending(h)
  /\ End(h, EntityResponse(rec[h]))
  /\ Stmt(h)
  /\ UNCHANGED <<variant, nextId, op, eid, data, query, nAcquire, rpcDone,
                 assigned, passed, schemaVars>>

\* ------------------------------------------------------------- update
\* AsyncpgGrpcResource.update: await self.client.update(entity_id, **data)
UpdateRpc(h) ==
  /\ op[h] = "update" /\ pc[h] = "rpc"
  /\ \/ /\ OnGrpcError(h)
        /\ UNCHANGED <<dbVars, rpcDone>>
     \/ /\ table' = ClientUpdate(table, eid[h], data[h])
        /\ rpcDone' = [rpcDone EXCEPT ![h] = TRUE]
        /\ Run(h, "acquire", None)
        /\ UNCHANGED <<variant, nextId, pending>>
  /\ UNCHANGED <<op, eid, data, query, nAcquire, nStmt, assigned, passed, schemaVars>>

\* the existence check (PG, asyncpg, MySQL); the only statement of the RPC
\* variant, whose result goes to dict() unchecked
UpdateSelect(h) ==
  /\ op[h] = "update" /\ pc[h] = "select"
  /\ LET r == SelectByPk(table, eid[h])
     IN  IF IsGrpc THEN End(h, EntityResponse(r))
         ELSE IF r = None THEN End(h, Raise("ObjectNotFound"))
         ELSE Run(h, "write", r)
  /\ Stmt(h)
  /\ UNCHANGED <<dbVars, op, eid, data, query, nAcquire, rpcDone, assigned,
                 passed, schemaVars>>

\* table.update().values(data).where(pk == entity_id), RETURNING the row in
\* PG and asyncpg; in MySQL the write stays in the transaction
UpdateWrite(h) ==
  /\ op[h] = "update" /\ pc[h] = "write"
  /\ IF InTransaction
       THEN /\ ~LockedByOther(h, eid[h])
            /\ table' = table
            /\ pending' = [pending EXCEPT ![h] =
                             Written(UpdateValues(table, eid[h], data[h]), eid[h],
                                     table[eid[h]] # NoRow)]
       ELSE /\ table' = UpdateValues(table, eid[h], data[h])
            /\ UNCHANGED pending
  /\ CASE variant = "PGResource"      -> Run(h, "commit", SelectByPk(table', eid[h]))
       [] variant = "AsyncpgResource" -> End(h, EntityResponse(SelectByPk(table', eid[h])))
       [] variant = "MySQLResource"   -> Run(h, "commit", rec[h])
  /\ Stmt(h)
  /\ UNCHANGED <<variant, nextId, op, eid, data, query, nAcquire, rpcDone,
                 assigned, passed, schemaVars>>

\* await conn.execute("commit;")
UpdateCommit(h) ==
  /\ op[h] = "update" /\ pc[h] = "commit"
  /\ table' = CommitWrite(table, pending[h])
  /\ NoPending(h)
  /\ IF variant = "MySQLResource"
       THEN Run(h, "reread", rec[h])
       ELSE End(h, EntityResponse(rec[h]))
  /\ Stmt(h)
  /\ UNCHANGED <<variant, nextId, op, eid, data, query, nAcquire, rpcDone, assigned,
                 passed, schemaVars>>

\* MySQLResource.update: the select after the commit
UpdateReread(h) ==
  /\ op[h] = "update" /\ pc[h] = "reread"
  /\ End(h, EntityResponse(SelectByPk(table, eid[h])))
  /\ Stmt(h)
  /\ UNCHANGED <<dbVars, op, eid, data, query, nAcquire, rpcDone, assigned,
                 passed, schemaVars>>

\* ------------------------------------------------------------- delete
\* AsyncpgGrpcResource.delete: await self.client.delete(entity_id=entity_id)
DeleteRpc(h) ==
  /\ op[h] = "delete" /\ pc[h] = "rpc"
  /\ \/ /\ OnGrpcError(h)
        /\ UNCHANGED <<dbVars, rpcDone>>
     \/ /\ table' = ClientDelete(table, eid[h])
        /\ rpcDone' = [rpcDone EXCEPT ![h] = TRUE]
        /\ End(h, Deleted)
        /\ UNCHANGED <<variant, nextId, pending>>
  /\ UNCHANGED <<op, eid, data, query, nAcquire, nStmt, assigned, passed, schemaVars>>

\* table.delete().where(pk == entity_id); in MySQL the write stays in the
\* transaction
DeleteStmt(h) ==
  /\ op[h] = "delete" /\ pc[h] = "delete"
  /\ IF InTransaction
       THEN /\ ~LockedByOther(h, eid[h])
            /\ table' = table
            /\ pending' = [pending EXCEPT ![h] =
                             Written(DeleteByPk(table, eid[h]), eid[h],
                                     table[eid[h]] # NoRow)]
       ELSE /\ table' = DeleteByPk(table, eid[h])
            /\ UNCHANGED pending
  /\ IF Commits THEN Run(h, "commit", None) ELSE End(h, Deleted)
  /\ Stmt(h)
  /\ UNCHANGED <<variant, nextId, op, eid, data, query, nAcquire, rpcDone,
                 assigned, passed, schemaVars>>

\* await conn.execute("commit;"), then json_response({"status": "deleted"})
DeleteCommit(h) ==
  /\ op[h] = "delete" /\ pc[h] = "commit"
  /\ table' = CommitWrite(table, pending[h])
  /\ NoPending(h)
  /\ End(h, Deleted)
  /\ Stmt(h)
  /\ UNCHANGED <<variant, nextId, op, eid, data, query, nAcquire, rpcDone, assigned,
                 passed, schemaVars>>

\* ------------------------------------------------------------- driver
\* a statement fails in the driver: the exception leaves the with block, and
\* the release drops what the connection had not committed
DriverError(h) ==
  /\ conn[h]
  /\ NoPending(h)
  /\ End(h, Raise("DriverError"))
  /\ Stmt(h)
  /\ UNCHANGED <<variant, table, nextId, op, eid, data, query, nAcquire, rpcDone, assigned,
                 passed, schemaVars>>

\* ------------------------------------------------------------- Next
Next ==
  \E h \in H :
    \/ Start(h) \/ Require(h) \/ Validate(h) \/ Acquire(h)
    \/ ListCount(h) \/ ListPage(h) \/ DetailSelect(h)
    \/ CreateRpc(h) \/ CreateInsert(h) \/ CreateSelect(h) \/ CreateCommit(h)
    \/ UpdateRpc(h) \/ UpdateSelect(h) \/ UpdateWrite(h) \/ UpdateCommit(h)
    \/ UpdateReread(h)
    \/ DeleteRpc(h) \/ DeleteStmt(h) \/ DeleteCommit(h)

Spec == Init /\ [][Next]_vars

\* the same handlers over a driver whose statements may fail
NextFaulty == Next \/ \E h \in H : DriverError(h)

SpecFaulty == Init /\ [][NextFaulty]_vars

\* ------------------------------------------------------------- Schema
InitSchema ==
  /\ variant = "PGResource"
  /\ nextId = 2
  /\ pending = [h \in H |-> None]
  /\ table = [i \in Ids |-> NoRow]
  /\ op = [h \in H |-> "idle"]
  /\ pc = [h \in H |-> "idle"]
  /\ eid = [h \in H |-> 0]
  /\ data = [h \in H |-> NoField]
  /\ query = [h \in H |-> NoQuery]
  /\ rec = [h \in H |-> None]
  /\ result = [h \in H |-> NoResult]
  /\ conn = [h \in H |-> FALSE]
  /\ nAcquire = [h \in H |-> 0]
  /\ nStmt = [h \in H |-> 0]
  /\ rpcDone = [h \in H |-> FALSE]
  /\ assigned = [h \in H |-> 0]
  /\ passed = [h \in H |-> {}]
  /\ title \in Titles
  /\ endpoints = <<>>
  /\ registered = <<>>
  /\ lastJson = NoJson
  /\ jsonAt = NoCall

\* Schema.register(Endpoint, ...)
Register ==
  /\ Len(registered) < MaxEndpoints
  /\ \E e \in Endpoints :
       /\ endpoints' = Append_endpoint(endpoints, e)
       /\ registered' = Append(registered, e)
  /\ UNCHANGED <<dbVars, reqVars, title, lastJson, jsonAt>>

\* Schema.to_json()
ToJson ==
  /\ lastJson' = to_json(title, endpoints)
  /\ endpoints' = EndpointsAfterToJson(endpoints)
  /\ jsonAt' = Len(registered)
  /\ UNCHANGED <<dbVars, reqVars, title, registered>>

NextSchema == Register \/ ToJson

SpecSchema == InitSchema /\ [][NextSchema]_vars

\* ============================================================== claims
\* the handler got past require() and, for create and update, validate_payload
PassedChecks(h) ==
  /\ "require" \in passed[h]
  /\ op[h] \in {"create", "update"} => "validate" \in passed[h]

Ended(h) == pc[h] = "done"

\* C1 (as claimed): an update with a valid payload whose id matches no row
\* (here: a key the sequence has not handed out yet), and whose RPC call did not
\* fail, ends with ObjectNotFound, and no RPC update was applied.
C1_UpdateOfMissingRowIsNotFound ==
  \A h \in H :
    (op[h] = "update" /\ Ended(h) /\ PassedChecks(h) /\ eid[h] >= nextId
       /\ result[h].kind # "StatusError")
    => (result[h] = Raise("ObjectNotFound") /\ ~rpcDone[h])

\* C2: no handler acquires a connection or issues a statement before require()
\* has passed and, for create and update, the payload has validated; a handler
\* that fails either check ends with that exception having touched the
\* database zero times, and the failing step leaves the table as it was.
C2_ChecksBeforeDatabase ==
  /\ [](\A h \in H :
          /\ (nAcquire[h] > 0 \/ nStmt[h] > 0 \/ conn[h]) => PassedChecks(h)
          /\ result[h].kind \in {"AuthError", "ValidationError"}
               => /\ result[h].raised /\ Ended(h)
                  /\ nAcquire[h] = 0 /\ nStmt[h] = 0 /\ ~conn[h])
  /\ [][\A h \in H :
          (pc[h] \in {"require", "validate"} /\ pc'[h] = "done")
          => (table' = table /\ nextId' = nextId)]_vars

C2_Witness ==
  \E h, g \in H :
    /\ op[h] = "update" /\ result[h].kind = "ValidationError"
    /\ op[g] = "create" /\ nStmt[g] > 0 /\ result[g].kind = "Ok"

\* C3: a handler that has ended, by a response or by an exception (ObjectNotFound,
\* TypeError, a driver error), holds no connection; when every handler has ended
\* the pool has no connection out.
C3_ConnectionsReleased ==
  /\ \A h \in H : pc[h] \in {"idle", "done"} => ~conn[h]
  /\ (\A h \in H : pc[h] \in {"idle", "done"})
       => Cardinality({h \in H : conn[h]}) = 0

C3_Witness ==
  /\ \A h \in H : Ended(h)
  /\ \E h, g \in H :
       /\ result[h].kind = "ObjectNotFound" /\ op[h] = "update" /\ nAcquire[h] = 1
       /\ result[g].kind = "DriverError" /\ nAcquire[g] = 1

\* C4: in AsyncpgGrpcResource a create, update or delete whose RPC call raised
\* GrpcError (it passed the checks and ended without the call returning) returns
\* the {"status": {"error": ...}} body, raises nothing, acquired no connection
\* and issued no statement; the step leaves the table as it was.
C4_GrpcErrorIsAResponse ==
  /\ [](\A h \in H :
          (IsGrpc /\ op[h] \in {"create", "update", "delete"} /\ Ended(h)
             /\ PassedChecks(h) /\ ~rpcDone[h])
          => /\ result[h] = Respond("StatusError", <<>>)
             /\ nAcquire[h] = 0 /\ nStmt[h] = 0 /\ ~conn[h])
  /\ [][\A h \in H :
          (pc[h] = "rpc" /\ pc'[h] = "done" /\ ~rpcDone'[h])
          => (table' = table /\ nextId' = nextId)]_vars

C4_Witness ==
  \E h \in H :
    /\ IsGrpc /\ op[h] = "update" /\ result[h].kind = "StatusError"
    /\ table[eid[h]] # NoRow

\* C5 (as claimed): a create that completes returns the row it inserted: the
\* key the server assigned and, for the submitted field, the submitted value.
C5_CreateReturnsSubmitted ==
  \A h \in H :
    (op[h] = "create" /\ Ended(h) /\ result[h].kind = "Ok")
    => /\ result[h].body[1] = assigned[h]
       /\ data[h] # NoField => result[h].body[2] = data[h]

\* an update of row k that reached the table through the RPC client
RpcUpdateOf(k, h) ==
  \E g \in H \ {h} : op[g] = "update" /\ eid[g] = k /\ rpcDone[g]

\* C5 (amended): a create that completes returns the row stored under the key
\* the server assigned; the submitted field has the submitted value in
\* PGResource, AsyncpgResource and MySQLResource always, and in
\* AsyncpgGrpcResource unless another request's RPC update of that key was
\* applied.
C5_CreateReturnsStoredRow ==
  \A h \in H :
    (op[h] = "create" /\ Ended(h) /\ result[h].kind = "Ok")
    => /\ result[h].body[1] = assigned[h]
       /\ (~IsGrpc \/ ~RpcUpdateOf(assigned[h], h))
            => (data[h] # NoField => result[h].body[2] = data[h])

C5_Witness ==
  \E h \in H :
    /\ ~IsGrpc /\ op[h] = "create" /\ Ended(h) /\ result[h].kind = "Ok"
    /\ data[h] # NoField /\ result[h].body = <<assigned[h], data[h]>>
    /\ table[assigned[h]] \notin {NoRow, data[h]}

\* a create request has been given key k
CreatedKey(k) == \E g \in H : op[g] = "create" /\ assigned[g] = k

\* C6 (as claimed): every permitted delete ends with {"status": "deleted"} and
\* with no row under its key (unless a create was given that key).
C6_DeleteAlwaysDeleted ==
  \A h \in H :
    (op[h] = "delete" /\ Ended(h) /\ PassedChecks(h))
    => (result[h] = Deleted /\ (table[eid[h]] = NoRow \/ CreatedKey(eid[h])))

\* the step in which the delete reaches the table: the statement (PG,
\* asyncpg), the RPC delete, or the commit of a statement that matched a row
\* (MySQL)
DeleteTakesEffect(h) ==
  /\ op[h] = "delete"
  /\ \/ ~InTransaction /\ pc[h] = "delete" /\ pc'[h] # "delete"
     \/ pc[h] = "rpc" /\ rpcDone'[h]
     \/ InTransaction /\ pc[h] = "commit" /\ pending[h] # None /\ result'[h] = Deleted

\* C6 (amended): every permitted delete ends without an exception; its body is
\* {"status": "deleted"}, except in AsyncpgGrpcResource when the RPC delete
\* raised GrpcError (then it is the status-error body).  When the delete takes
\* effect no row is left under its key, a row appears under a key only when a
\* create request is given that key, and a detail request that selects while
\* no row is under its key raises ObjectNotFound.
C6_DeleteThenNotFound ==
  /\ [](\A h \in H :
          (op[h] = "delete" /\ Ended(h) /\ PassedChecks(h))
          => /\ ~result[h].raised
             /\ \/ result[h] = Deleted
                \/ IsGrpc /\ ~rpcDone[h] /\ result[h].kind = "StatusError")
  /\ [][/\ \A h \in H : DeleteTakesEffect(h) => table'[eid[h]] = NoRow
        /\ \A k \in Ids :
             (table[k] = NoRow /\ table'[k] # NoRow)
             => \E g \in H : op[g] = "create" /\ pc[g] # "done" /\ assigned'[g] = k
        /\ \A d \in H :
             (op[d] = "detail" /\ pc[d] = "select" /\ pc'[d] = "done"
                /\ table[eid[d]] = NoRow)
             => result'[d] = Raise("ObjectNotFound")]_vars

C6_Witness ==
  \E h, d \in H :
    /\ op[h] = "delete" /\ result[h] = Deleted /\ eid[h] = 1
    /\ op[d] = "detail" /\ eid[d] = 1 /\ nStmt[d] = 1
    /\ result[d] = Raise("ObjectNotFound")

\* the rows a list request selects, counted on the table directly
SelectedNow(h) ==
  Cardinality({i \in Ids : /\ table[i] # NoRow
                           /\ query[h].filter # NoFilter => table[i] = query[h].filter})

\* the page length the total promises: min(limit, max(0, total - offset))
PromisedLen(h, total) ==
  Min(calc_pagination(query[h]).limit,
      Max(0, total - calc_pagination(query[h]).offset))

\* C7 (as claimed): in every list response (of PGResource and AsyncpgResource,
\* whose statements are all in the handlers) the page holds
\* min(limit, max(0, X-Total-Count - offset)) rows.
C7_PageMatchesTotal ==
  \A h \in H :
    (op[h] = "list" /\ Ended(h) /\ result[h].kind = "Ok"
       /\ variant \in {"PGResource", "AsyncpgResource"})
    => Len(result[h].body[2]) = PromisedLen(h, result[h].body[1])

\* C7 (amended): X-Total-Count is the size of the selection at the count query;
\* the page holds min(limit, max(0, X-Total-Count - offset)) rows whenever the
\* selection has that many rows at the page query too (in particular when no
\* other request's statement lands between the two queries).
C7_PageMatchesTotalWhenQuiet ==
  [][\A h \in H :
       /\ (op[h] = "list" /\ pc[h] = "count" /\ pc'[h] = "page")
            => rec'[h] = <<SelectedNow(h)>>
       /\ (op[h] = "list" /\ pc[h] = "page" /\ pc'[h] = "done"
             /\ result'[h].kind = "Ok" /\ rec[h] = <<SelectedNow(h)>>)
            => /\ result'[h].body[1] = rec[h][1]
               /\ Len(result'[h].body[2]) = PromisedLen(h, rec[h][1])]_vars

C7_Witness ==
  \E h \in H :
    /\ op[h] = "list" /\ Ended(h) /\ result[h].kind = "Ok"
    /\ calc_pagination(query[h]).offset = 1
    /\ result[h].body[1] = 2 /\ Len(result[h].body[2]) = 1

\* how often x occurs in sequence s
Occurrences(s, x) == Cardinality({i \in DOMAIN s : s[i] = x})

\* C8: Schema.endpoints is the sequence of registered endpoints in call order,
\* Schema.resources lists them in that order, to_json leaves the list as it
\* was, and the last to_json document carries the title and exactly the
\* descriptors of the endpoints registered by then, ascending by name.
C8_SchemaRegistry ==
  /\ endpoints = registered
  /\ resources(endpoints) =
       [i \in DOMAIN registered |-> <<"resource_type", registered[i].name>>]
  /\ jsonAt # NoCall =>
       LET docs == lastJson.endpoints
           eps  == SubSeq(registered, 1, jsonAt)
       IN  /\ lastJson.title = title
           /\ Len(docs) = jsonAt
           /\ \A i \in 1..(Len(docs) - 1) : docs[i].name <= docs[i + 1].name
           /\ \A i \in DOMAIN eps :
                Occurrences(docs, Descriptor(eps[i]))
                  = Cardinality({j \in DOMAIN eps : Descriptor(eps[j]) = Descriptor(eps[i])})

C8_Witness ==
  /\ jsonAt >= 2 /\ Len(registered) > jsonAt
  /\ registered[1].name > registered[2].name
  /\ lastJson.endpoints[1].name < lastJson.endpoints[2].name

\* the step in which an update's write of an existing row reaches the table:
\* the statement (PG, asyncpg), or its commit (MySQL)
UpdateTakesEffect(h) ==
  /\ op[h] = "update"
  /\ \/ ~InTransaction /\ pc[h] = "write" /\ pc'[h] # "write" /\ table[eid[h]] # NoRow
     \/ InTransaction /\ pc[h] = "commit" /\ pending[h] # None /\ pc'[h] = "reread"

\* C9: an update's write on an existing row stores the payload's value whatever
\* another update wrote since the existence check (the last write wins), and
\* an update of PGResource, AsyncpgResource or MySQLResource that passed its
\* existence check and whose row is still there ends with a success response,
\* in PGResource and AsyncpgResource showing its own value.
C9_LostUpdate ==
  /\ [][\A h \in H :
          (UpdateTakesEffect(h) /\ data[h] # NoField) => table'[eid[h]] = data[h]]_vars
  /\ [](\A h \in H :
          (op[h] = "update" /\ Ended(h) /\ ~IsGrpc /\ PassedChecks(h)
             /\ result[h].kind # "ObjectNotFound" /\ table[eid[h]] # NoRow)
          => /\ result[h].kind = "Ok" /\ ~result[h].raised
             /\ (variant # "MySQLResource" /\ data[h] # NoField)
                  => result[h].body = <<eid[h], data[h]>>)

\* two updates of one row with different values have both answered success,
\* each showing its own value, and the row holds only the second value
C9_Witness ==
  \E h, g \in H :
    /\ h # g /\ variant = "PGResource"
    /\ op[h] = "update" /\ op[g] = "update" /\ eid[h] = eid[g]
    /\ Ended(h) /\ Ended(g) /\ nStmt[h] = 3 /\ nStmt[g] = 3
    /\ result[h] = Respond("Ok", <<eid[h], data[h]>>)
    /\ result[g] = Respond("Ok", <<eid[g], data[g]>>)
    /\ data[h] # data[g] /\ table[eid[h]] = data[g]

\* C10 (as claimed): in PGResource, AsyncpgResource and MySQLResource a
\* permitted update with a valid payload ends with ObjectNotFound or with the
\* updated row, never with another error.
C10_UpdateEndsNotFoundOrRow ==
  \A h \in H :
    (op[h] = "update" /\ Ended(h) /\ ~IsGrpc /\ PassedChecks(h))
    => result[h].kind \in {"ObjectNotFound", "Ok"}

====
